---- MODULE Spec2Model ----
(***************************************************************************)
(* CPU core allocator (CPUAllocator) and ContainerResourceManager of       *)
(* src/src/resources/performance.py.                                       *)
(*                                                                         *)
(* Capacities are Python floats in the source.  Every capacity the code    *)
(* computes is k * (device_score / host_score) for integers k, so the      *)
(* model keeps capacities as exact integers in units of 1/HostScore:       *)
(* one whole core (1.0) is Unit = HostScore units.  Floating-point         *)
(* rounding is not modelled.                                               *)
(*                                                                         *)
(* Names: the manager allocates under f"container_{idx}"; a name is the    *)
(* pair <<prefix, number>> so that the formatted name is a value that can  *)
(* differ from the registered one.                                         *)
(***************************************************************************)
EXTENDS Integers, Sequences, FiniteSets, TLC

\* ----------------------------------------------------------- model bounds
HostCores == 2        \* host_cores of the modelled host
HostScore == 2        \* host_score of the modelled host
MaxContainers == 2    \* containers registered at a time
MaxDevCores == 3      \* device cores of a spec: 1 .. MaxDevCores
MaxScore == 3         \* single_core_score of a spec: 0 .. MaxScore
MaxCalls == 2         \* direct allocate() calls between two allocator resets
MaxPassCalls == 3     \* allocate() calls of one pass over distinct containers
RecursionLimit == 3   \* nested calls the interpreter allows (sys.getrecursionlimit())
MaxSeed == 1          \* seeds (node indices) 0 .. MaxSeed
MaxIndex == 3         \* node indices into a list of names: 0 .. MaxIndex

\* ------------------------------------------------------ program constants
\* spread_threshold = 0.5 = SpreadNum / SpreadDen
SpreadNum == 1
SpreadDen == 2
CpuPeriod == 100000        \* cpu_period, microseconds
CpuSharesUnit == 1024      \* cpu_shares per whole core
\* The host and the device of the examples under __main__ (Example 1).
ExampleHostCores == 8
ExampleHostScore == 1079
ExampleDevCores == 4
ExampleDevScore == 500
\* Example 2 registers three of these devices.
ExampleClientCount == 3
\* nano_cpus = int(effective_capacity * 1e9) exceeds TLC's integers and is left
\* out of the record; "Memory" depends on ram_gib only and is left out too.

DevCores == 1 .. MaxDevCores
DevScores == 0 .. MaxScore

RegNames == {<<"client", i>> : i \in 0 .. (MaxContainers - 1)}
AllocNames == {<<"container", i>> : i \in 0 .. 1}
ContainerName(idx) == <<"container", idx>>

Min(a, b) == IF a < b THEN a ELSE b
Max(a, b) == IF a > b THEN a ELSE b
CeilDiv(a, b) == (a + b - 1) \div b
FloorDiv(a, b) == a \div b

VARIABLES
    host_cores,          \* CPUAllocator.host_cores (constructor argument)
    host_score,          \* CPUAllocator.host_score (constructor argument)
    allow_overscaling,   \* CPUAllocator.allow_overscaling (constructor argument)
    cores,               \* CPUAllocator.cores: core id -> [used_capacity, assigned_containers]
    allocations,         \* CPUAllocator.allocations: name -> allocation_info
    use_spread_mode,     \* CPUAllocator._use_spread_mode
    containers,          \* ContainerResourceManager.containers, in insertion order
    configs,             \* ContainerResourceManager.configs: name -> config
    planned,             \* ContainerResourceManager._planned
    lastOp,              \* the operation that produced this state
    lastArgs,            \* its arguments
    result,              \* what it returned or raised
    callLog,             \* allocate() calls since the allocator was last reset
    replanned,           \* a planning pass ran on a manager that was already planned
    files,               \* the paths at which a catalog document exists
    opens,               \* the paths open()ed by the last operation, in order
    reads,               \* document name -> times it was read by this process: 0, 1, or 2 for more
    np_global,           \* numpy's process-wide generator (np.random)
    normals,             \* the standard normal values numpy's generators yield
    earlier              \* one earlier sampling call and what it returned

vars == <<host_cores, host_score, allow_overscaling, cores, allocations, use_spread_mode, containers,
          configs, planned, lastOp, lastArgs, result, callLog, replanned,
          files, opens, reads, np_global, normals, earlier>>

\* One whole core (total_capacity = 1.0) in units of 1/host_score.
Unit == host_score
CoreIds == 0 .. (host_cores - 1)

\* ------------------------------------------------------------ CoreAllocation
EmptyCore == [used_capacity |-> 0, assigned_containers |-> <<>>]
EmptyCores == [c \in CoreIds |-> EmptyCore]

available_capacity(core) == Max(0, Unit - core.used_capacity)

\* ------------------------------------------------------------ CPUAllocator
\* set_mode() with the threshold test made inclusive.
set_mode_inclusive(total_cores_needed, total_effective_capacity) ==
    IF total_cores_needed > host_cores
    THEN FALSE
    ELSE total_effective_capacity * SpreadDen <= host_cores * Unit * SpreadNum

\* The value set_mode() leaves in _use_spread_mode.
set_mode(total_cores_needed, total_effective_capacity) ==
    IF total_cores_needed > host_cores
    THEN FALSE
    ELSE IF total_effective_capacity * SpreadDen < host_cores * Unit * SpreadNum
         THEN TRUE
         ELSE FALSE

\* allocate() rounding the cores of a faster device down instead of up.
AllocParamsFloor(device_cores, device_score, over) ==
    IF over /\ device_score > host_score
    THEN [cores_to_assign |-> FloorDiv(device_cores * device_score, host_score),
          cpu_limit_per_core |-> Unit,
          effective_capacity |-> device_cores * device_score]
    ELSE [cores_to_assign |-> device_cores,
          cpu_limit_per_core |-> Min(Unit, device_score),
          effective_capacity |-> device_cores * Min(Unit, device_score)]

\* cores_to_assign, cpu_limit_per_core, effective_capacity of allocate()
AllocParams(device_cores, device_score, over) ==
    IF over
    THEN IF device_score > host_score
         THEN [cores_to_assign |-> CeilDiv(device_cores * device_score, host_score),
               cpu_limit_per_core |-> Unit,
               effective_capacity |-> device_cores * device_score]
         ELSE [cores_to_assign |-> device_cores,
               cpu_limit_per_core |-> device_score,
               effective_capacity |-> device_cores * device_score]
    ELSE [cores_to_assign |-> device_cores,
          cpu_limit_per_core |-> Min(Unit, device_score),
          effective_capacity |-> device_cores * Min(Unit, device_score)]

\* The spread sort putting the least available core first.
SpreadKeyLeastAvailable(core) == <<0, available_capacity(core)>>

\* Sort keys of _find_cores_for_device, as pairs compared lexicographically.
SpreadKey(core) == <<0, 0 - available_capacity(core)>>

\* shared_sort_key() putting the least used core with room first.
shared_sort_key_least_used(core, capacity_per_core) ==
    IF available_capacity(core) >= capacity_per_core
    THEN <<0, core.used_capacity>>
    ELSE <<1, 0 - available_capacity(core)>>

\* shared_sort_key() without its has_room test: most used first, whatever fits.
shared_sort_key_most_used(core, capacity_per_core) ==
    <<0, 0 - core.used_capacity>>

shared_sort_key(core, capacity_per_core) ==
    IF available_capacity(core) >= capacity_per_core
    THEN <<0, 0 - core.used_capacity>>
    ELSE <<1, 0 - available_capacity(core)>>

SortKey(core, capacity_per_core, prefer_empty) ==
    IF prefer_empty THEN SpreadKey(core) ELSE shared_sort_key(core, capacity_per_core)

KeyLess(k1, k2) == k1[1] < k2[1] \/ (k1[1] = k2[1] /\ k1[2] < k2[2])

\* list.sort is stable and core_list starts in core-id order.
SortsBefore(cs, i, j, cap, prefer_empty) ==
    LET ki == SortKey(cs[i], cap, prefer_empty)
        kj == SortKey(cs[j], cap, prefer_empty)
    IN KeyLess(ki, kj) \/ (ki = kj /\ i < j)

SortedCoreList(cs, cap, prefer_empty) ==
    LET rank(i) == Cardinality({j \in CoreIds : SortsBefore(cs, j, i, cap, prefer_empty)})
    IN [p \in 1 .. host_cores |-> CHOOSE i \in CoreIds : rank(i) = p - 1]

\* _find_cores_for_device going round the sorted list again when more cores
\* are needed than the host has.
find_cores_wrapping(cs, num_cores_needed, capacity_per_core, prefer_empty) ==
    [p \in 1 .. num_cores_needed |->
        SortedCoreList(cs, capacity_per_core, prefer_empty)[((p - 1) % host_cores) + 1]]

\* The chosen core ids, in the order they are assigned.
find_cores_for_device(cs, num_cores_needed, capacity_per_core, prefer_empty) ==
    SubSeq(SortedCoreList(cs, capacity_per_core, prefer_empty),
           1, Min(num_cores_needed, host_cores))

\* The oversubscription test with >= for >.
OversubscribesAtFull(core, capacity) == core.used_capacity + capacity >= Unit

\* The oversubscription test of the "Apply allocations" loop.
Oversubscribes(core, capacity) == core.used_capacity + capacity > Unit

\* The "Apply allocations" loop of allocate(), from position i of core_allocs.
RECURSIVE ApplyAllocs(_, _, _, _, _, _)
ApplyAllocs(cs, over, core_allocs, i, name, capacity) ==
    IF i > Len(core_allocs)
    THEN [cores |-> cs, is_oversubscribed |-> over]
    ELSE LET id == core_allocs[i]
             nowOver == over \/ Oversubscribes(cs[id], capacity)
             charged == [cs EXCEPT ![id] =
                            [used_capacity |-> @.used_capacity + capacity,
                             assigned_containers |-> Append(@.assigned_containers, name)]]
         IN ApplyAllocs(charged, nowOver, core_allocs, i + 1, name, capacity)

RECURSIVE SortedUnique(_)
SortedUnique(S) ==
    IF S = {} THEN <<>>
    ELSE LET m == CHOOSE x \in S : \A y \in S : x <= y
         IN <<m>> \o SortedUnique(S \ {m})

SeqRange(s) == {s[i] : i \in 1 .. Len(s)}

ModeName(spread) == IF spread THEN "spread" ELSE "shared"

\* prefer_spread defaulting to spread instead of to the allocator's mode.
PreferSpreadIgnoresMode(a, prefer_spread) == prefer_spread # "False"

\* prefer_spread of allocate() once its default is resolved; the argument is
\* "None", "True" or "False".
PreferSpread(a, prefer_spread) ==
    IF prefer_spread = "None" THEN a.mode ELSE prefer_spread = "True"

\* One allocate() call: its arguments and the num_cores_needed it hands to
\* _find_cores_for_device.
CallOf(name, device_cores, device_score, cores_to_assign) ==
    [container_name |-> name, device_cores |-> device_cores,
     device_score |-> device_score, cores_to_assign |-> cores_to_assign]

\* allocate(): the allocator [cores, allocations, mode, calls] after the call
\* (calls logs the allocate() calls since the last reset), and the record it
\* returns.
allocate(a, over, container_name, device_cores, device_score, prefer_spread) ==
    LET p == AllocParams(device_cores, device_score, over)
        spread == PreferSpread(a, prefer_spread)
        core_allocs == find_cores_for_device(a.cores, p.cores_to_assign,
                                             p.cpu_limit_per_core, spread)
        applied == ApplyAllocs(a.cores, FALSE, core_allocs, 1, container_name,
                               p.cpu_limit_per_core)
        info == [container_name |-> container_name,
                 device_cores |-> device_cores,
                 device_score |-> device_score,
                 host_cores_assigned |-> Len(core_allocs),
                 effective_capacity |-> p.effective_capacity,
                 allocated_capacity |-> Len(core_allocs) * p.cpu_limit_per_core,
                 cpu_limit_per_core |-> p.cpu_limit_per_core,
                 assigned_cores |-> core_allocs,
                 cpuset_cpus |-> SortedUnique(SeqRange(core_allocs)),
                 cpu_period |-> CpuPeriod,
                 cpu_quota |-> FloorDiv(CpuPeriod * p.effective_capacity, host_score),
                 cpu_shares |-> FloorDiv(p.effective_capacity * CpuSharesUnit, host_score),
                 mode |-> ModeName(spread),
                 is_oversubscribed |-> applied.is_oversubscribed]
    IN [cores |-> applied.cores,
        allocations |-> [n \in (DOMAIN a.allocations) \cup {container_name} |->
                            IF n = container_name THEN info ELSE a.allocations[n]],
        mode |-> a.mode,
        calls |-> Append(a.calls, CallOf(container_name, device_cores, device_score,
                                         p.cores_to_assign)),
        ret |-> info]

\* The allocator that allocate() leaves, without the returned record.
AllocatorOf(r) ==
    [cores |-> r.cores, allocations |-> r.allocations, mode |-> r.mode,
     calls |-> r.calls]

Allocator ==
    [cores |-> cores, allocations |-> allocations, mode |-> use_spread_mode,
     calls |-> callLog]

EmptyMap == [n \in {} |-> 0]

\* CPUAllocator.reset(), and the allocator CPUAllocator.__init__ builds.
allocator_reset(a) ==
    [cores |-> EmptyCores, allocations |-> EmptyMap, mode |-> TRUE, calls |-> <<>>]

\* A manager reset() that keeps its allocator.
KeptAllocator == Allocator

\* CPUAllocator(host_cores, host_score, ...) as the manager's reset() builds it.
FreshAllocator == allocator_reset(Allocator)

get_allocation_summary ==
    [host_cores |-> host_cores,
     host_score |-> host_score,
     mode |-> ModeName(use_spread_mode),
     core_usage |-> [c \in CoreIds |->
                        [used_capacity |-> cores[c].used_capacity,
                         available_capacity |-> available_capacity(cores[c]),
                         containers |-> cores[c].assigned_containers]],
     allocations |-> allocations]

\* ------------------------------------------------- ContainerResourceManager
\* A device spec as the manager reads it: dev["cores"] and
\* dev.get("single_core_score", host_score).  A spec without the score key is
\* read as one whose score is host_score by both loops of plan_allocations(),
\* so it is kept as that spec.  ram_gib and freq_mhz only feed "Memory".
ExplicitSpecs ==
    {[cores |-> c, single_core_score |-> s] : c \in DevCores, s \in DevScores}

\* perturb_device(..., lock_keys=["cores"]): cores verbatim, every other field
\* resampled and clamped to >= 1.
PerturbedSpecs ==
    {[cores |-> c, single_core_score |-> s] : c \in DevCores, s \in 1 .. MaxScore}

DefaultSpec(default_cores) ==
    [cores |-> default_cores, single_core_score |-> host_score]

\* The devices registered on the example host: rpi4_spec of Example 1, the
\* same device at the host's score and at twice the host's score.
ExampleSpecs ==
    {[cores |-> ExampleDevCores, single_core_score |-> s] :
        s \in {ExampleDevScore, ExampleHostScore, 2 * ExampleHostScore}}

\* The device_spec / default_cores arguments of add_container().
DeviceInputs ==
    IF host_score = ExampleHostScore
    THEN ExampleSpecs
    ELSE ExplicitSpecs \cup PerturbedSpecs \cup {DefaultSpec(c) : c \in DevCores}

DevScoreOf(dev) == dev.single_core_score

HasName(cont, name) == \E i \in 1 .. Len(cont) : cont[i].name = name

\* self.containers[name] = dev on an insertion-ordered dict: a new key goes
\* last, an existing key keeps its place.
DictPut(cont, name, dev) ==
    IF HasName(cont, name)
    THEN [i \in 1 .. Len(cont) |->
            IF cont[i].name = name THEN [name |-> name, dev |-> dev] ELSE cont[i]]
    ELSE Append(cont, [name |-> name, dev |-> dev])

\* The first loop of plan_allocations(): total_cores_needed, total_effective.
RECURSIVE PlanTotals(_, _, _)
PlanTotals(cont, over, i) ==
    IF i > Len(cont)
    THEN [total_cores_needed |-> 0, total_effective |-> 0]
    ELSE LET dev == cont[i].dev
             score == DevScoreOf(dev)
             rest == PlanTotals(cont, over, i + 1)
             cores_for_device ==
                 IF over /\ score > host_score
                 THEN CeilDiv(dev.cores * score, host_score)
                 ELSE dev.cores
             perf_ratio ==
                 IF over /\ score > host_score THEN score ELSE Min(Unit, score)
         IN [total_cores_needed |-> rest.total_cores_needed + cores_for_device,
             total_effective |-> rest.total_effective + dev.cores * perf_ratio]

\* generate_container_configs(device_parma=dev, allocator=..., container_idx=idx),
\* given the record allocate() returned.
container_config(dev, alloc) ==
    [Cpus |-> dev.cores,
     EffectiveCpus |-> alloc.allocated_capacity,
     CpuPeriod |-> CpuPeriod,
     CpuQuota |-> alloc.cpu_quota,
     CpuShares |-> alloc.cpu_shares,
     CpusetCpus |-> alloc.cpuset_cpus,
     env_threads |-> Max(1, CeilDiv(alloc.allocated_capacity, Unit))]

\* The second loop walking the containers last to first.
PlanOrderReversed(cont, i) == Len(cont) + 1 - i

\* The position in self.containers that the i-th iteration of the second loop
\* of plan_allocations() reads.
PlanOrder(cont, i) == i

\* The second loop of plan_allocations(), from iteration i: the allocator and
\* the configs when it ends.
RECURSIVE PlanLoop(_, _, _, _, _)
PlanLoop(a, cfg, cont, over, i) ==
    IF i > Len(cont)
    THEN [alloc |-> a, configs |-> cfg]
    ELSE LET e == cont[PlanOrder(cont, i)]
             cname == ContainerName(i - 1)
             r == allocate(a, over, cname, e.dev.cores, DevScoreOf(e.dev), "None")
             config == container_config(e.dev, r.ret)
             cfg2 == [n \in (DOMAIN cfg) \cup {e.name} |->
                         IF n = e.name THEN config ELSE cfg[n]]
         IN PlanLoop(AllocatorOf(r), cfg2, cont, over, i + 1)

\* plan_allocations() without the reset at its head.
PlanNoReset(a) == a

\* self.allocator.reset() at the head of plan_allocations().
PlanReset(a) == allocator_reset(a)

\* plan_allocations() as a whole, on allocator a.
plan_allocations(a, cont, cfg, over) ==
    LET t == PlanTotals(cont, over, 1)
        a0 == [PlanReset(a) EXCEPT
                  !.mode = set_mode(t.total_cores_needed, t.total_effective)]
    IN PlanLoop(a0, cfg, cont, over, 1)

Ok(v) == [kind |-> "ok", value |-> v]
Raise(e) == [kind |-> "error", error |-> e]

\* add_container() without its guard.
AddContainerNeverRaises == FALSE

\* The guards of the manager's methods.
AddContainerRaises == planned
GetConfigRaises == ~planned
GetAllConfigsRaises == ~planned
GetSummaryRaises == FALSE

\* ---------------------------------------------------- load_profile_data
\* A path is [abs, dir, name]; a relative path has dir = "" and is looked up
\* in the working directory.
RelPath(name) == [abs |-> FALSE, dir |-> "", name |-> name]
AbsPath(dir, name) == [abs |-> TRUE, dir |-> dir, name |-> name]

\* os.getcwd() and os.path.dirname(os.path.abspath(__file__))
Cwd == "cwd"
ScriptDir == "resources"

DeviceSpecsJson == "device_specs.json"
NetworkSpecsJson == "network_specs.json"
DocumentNames == {DeviceSpecsJson, NetworkSpecsJson}

\* os.path.join(dir, p): an absolute p discards dir.
os_path_join(dir, p) == IF p.abs THEN p ELSE AbsPath(dir, p.name)

\* The file open(p) looks for.
Resolve(p) == os_path_join(Cwd, p)

\* The catalogs installed next to the module.
InstalledFiles == {AbsPath(ScriptDir, n) : n \in DocumentNames}

\* The file systems a process may run on: no catalog anywhere; or the
\* catalogs next to the module and a copy of the network catalog elsewhere.
FileSystems ==
    {{}, InstalledFiles \cup {AbsPath("data", NetworkSpecsJson)}}

\* The json_file arguments of load_profile_data().
PathInputs ==
    {RelPath(n) : n \in DocumentNames} \cup {AbsPath("data", NetworkSpecsJson)}

\* The interpreter refuses the depth-th nested call (RecursionError).
TooDeep(depth) == depth > RecursionLimit

\* load_profile_data(json_file) entered at call depth `depth`: the paths it
\* open()s, in order, and what it returns or raises.  The inner bare except
\* turns whatever the nested call raises into FileNotFoundError.
RECURSIVE load_profile_data(_, _)
load_profile_data(json_file, depth) ==
    IF TooDeep(depth)
    THEN [opens |-> <<>>, ret |-> Raise("RecursionError")]
    ELSE IF Resolve(json_file) \in files
         THEN [opens |-> <<json_file>>, ret |-> Ok(json_file.name)]
         ELSE LET json_path == os_path_join(ScriptDir, json_file)
                  nested == load_profile_data(json_path, depth + 1)
              IN [opens |-> <<json_file>> \o nested.opens,
                  ret |-> IF nested.ret.kind = "ok"
                          THEN nested.ret
                          ELSE Raise("FileNotFoundError")]

\* reads after a load_profile_data() call that returned ret: a successful
\* call has read (json.load) the document once more.
CountRead(rd, ret) ==
    IF ret.kind = "ok"
    THEN [rd EXCEPT ![ret.value] = Min(@ + 1, 2)]
    ELSE rd

\* ---------------------------------------------------------------- numbers
\* The sampler's floats are kept as exact integers in units of 1/Scale: the
\* catalogs below hold multiples of 0.5, and the code divides by 4 (range / 4),
\* by 5 (0.2 * mean, variation in fifths), by 2 (mean of two connection
\* types) and the model takes standard normal values in halves.
Scale == 4 * 5 * 2 * 2
Num(n) == n * Scale
Abs(x) == IF x < 0 THEN 0 - x ELSE x

\* int(round(v)) of a float v = x / Scale: round half to even.
RoundHalfEven(x) ==
    LET q == x \div Scale
        r == x - q * Scale
    IN IF 2 * r < Scale THEN q
       ELSE IF 2 * r > Scale THEN q + 1
       ELSE IF q % 2 = 0 THEN q ELSE q + 1

\* ------------------------------------------------------------- generators
\* A generator is [shared, seed, pos]: whether it is the process-wide one,
\* the seed it was built from (-1: from the system), the draws it has made.
GlobalGenerator == [shared |-> TRUE, seed |-> 0 - 1, pos |-> 0]
Seeds == 0 .. MaxSeed

\* The sampler drawing from the process-wide generator.
RandomStateShared(idx) == np_global

\* rng = np.random.RandomState(idx)
RandomState(idx) == [shared |-> FALSE, seed |-> idx, pos |-> 0]

\* The generator after one draw of a vector.
Advance(g) == [g EXCEPT !.pos = (@ + 1) % (MaxSeed + 2)]

\* What one draw yields as standard normal values, in halves (-12 is -6.0,
\* 3 is 1.5), one per sampled parameter, for up to three of them.  Which vector a generator state
\* yields is fixed by numpy and unknown here: normals, chosen when the
\* process starts and never changed, gives the vector for the states of
\* even and of odd seed + pos.  How multivariate_normal mixes the values
\* through the covariance's factorisation is not modelled: every component
\* is its mean plus its deviation times one such value.
NormalVectors == {<<0 - 12, 3, 0 - 12>>, <<3, 0 - 12, 3>>}
Streams == [{0, 1} -> NormalVectors]

\* The vector generator g yields on its next draw.
Yields(g) == normals[(g.seed + g.pos + 2) % 2]

\* loc + scale * z for a standard normal value z given in halves
NormalValue(loc, scale, zh) == loc + (scale * zh) \div 2

\* ---------------------------------------------------------------- catalogs
\* A JSON object is an insertion-ordered dict: the sequence of its entries.
Dict(items) == [kind |-> "dict", items |-> items]
Entry(k, v) == [key |-> k, value |-> v]
Keys(d) == [i \in 1 .. Len(d.items) |-> d.items[i].key]
HasKey(d, k) == \E i \in 1 .. Len(d.items) : d.items[i].key = k
Get(d, k) == d.items[CHOOSE i \in 1 .. Len(d.items) : d.items[i].key = k].value

\* The entries of a network parameter: {"typical": t, "range": [lo, hi]},
\* {"typical": t}, or an entry without "typical".
Param(t, lo, hi) ==
    [kind |-> "param", has_typical |-> TRUE, typical |-> t,
     has_range |-> TRUE, lo |-> lo, hi |-> hi]
Typical(t) ==
    [kind |-> "param", has_typical |-> TRUE, typical |-> t,
     has_range |-> FALSE, lo |-> 0, hi |-> 0]
NoTypical ==
    [kind |-> "param", has_typical |-> FALSE, typical |-> 0,
     has_range |-> FALSE, lo |-> 0, hi |-> 0]

\* network_specs.json: profile -> connection type -> parameter -> entry.
\* "lte" has connection types whose parameters with "typical" differ.
NetworkCatalog ==
    Dict(<<Entry("wifi", Dict(<<
               Entry("indoor", Dict(<<Entry("delay", Param(2, 0, 8)),
                                      Entry("loss", Typical(1))>>)),
               Entry("outdoor", Dict(<<Entry("delay", Param(4, 4, 4)),
                                       Entry("loss", Typical(0))>>))>>)),
           Entry("lte", Dict(<<
               Entry("urban", Dict(<<Entry("delay", Param(6, 2, 10)),
                                     Entry("loss", NoTypical)>>)),
               Entry("outdoor", Dict(<<Entry("delay", Param(8, 6, 14)),
                                       Entry("loss", Typical(2))>>))>>))>>)

\* device_specs.json: device -> field -> number (ram_gib is 0.5).
DeviceCatalog ==
    Dict(<<Entry("rpi4", Dict(<<Entry("cores", Num(2)),
                                Entry("ram_gib", Scale \div 2),
                                Entry("single_core_score", Num(5))>>))>>)

\* json.load() of a document.
DataOf(name) == IF name = NetworkSpecsJson THEN NetworkCatalog ELSE DeviceCatalog

\* ---------------------------------------------------- extract_param_stats
\* One (key, mean, stddev) per parameter that has "typical", in dict order.
ParamStat(k, v) ==
    [key |-> k,
     mean |-> Num(v.typical),
     stddev |-> IF v.has_range /\ v.hi > v.lo
                THEN (Num(v.hi) - Num(v.lo)) \div 4
                ELSE Abs(Num(v.typical)) \div 5]

extract_param_stats(param_dict) ==
    LET present == SelectSeq(param_dict.items, LAMBDA e : e.value.has_typical)
    IN [i \in 1 .. Len(present) |-> ParamStat(present[i].key, present[i].value)]

StatKeys(stats) == [i \in 1 .. Len(stats) |-> stats[i].key]

\* ----------------------------------------------------------------- deep_get
\* The while loop of deep_get: stack holds (node, path) pairs, the last one
\* is popped.  The entries of a parameter are leaves here.
RECURSIVE deep_get_loop(_, _)
deep_get_loop(stack, key) ==
    IF stack = <<>>
    THEN Raise("KeyError")
    ELSE LET top == stack[Len(stack)]
             rest == SubSeq(stack, 1, Len(stack) - 1)
         IN IF top.node.kind = "dict"
            THEN IF HasKey(top.node, key)
                 THEN Ok([value |-> Get(top.node, key), path |-> Append(top.path, key)])
                 ELSE deep_get_loop(
                          rest \o [i \in 1 .. Len(top.node.items) |->
                                      [node |-> top.node.items[i].value,
                                       path |-> Append(top.path, top.node.items[i].key)]],
                          key)
            ELSE deep_get_loop(rest, key)

deep_get(d, key) == deep_get_loop(<<[node |-> d, path |-> <<>>]>>, key)

\* ----------------------------------------------------------- sample_profile
\* The sum of a sequence of numbers.
RECURSIVE SumSeq(_)
SumSeq(s) == IF s = <<>> THEN 0 ELSE Head(s) + SumSeq(Tail(s))

\* np.mean(all_means, axis=0) and np.mean(all_stds, axis=0)
MeanStats(all) ==
    LET n == Len(all)
    IN [k \in 1 .. Len(all[1]) |->
           [key |-> all[1][k].key,
            mean |-> SumSeq([i \in 1 .. n |-> all[i][k].mean]) \div n,
            stddev |-> SumSeq([i \in 1 .. n |-> all[i][k].stddev]) \div n]]

\* The samplers handing a drawn value on as it is.
ClampNone(lo, v) == v

\* max(lo, v), as the samplers apply it to a drawn value
Clamp(lo, v) == Max(lo, v)

\* v = max(0.0, v)
LinkClamp(v) == Clamp(0, v)

\* The result dict of sample_profile, given the statistics and the standard
\* normal values z the generator yields.
LinkSample(stats, z) ==
    Dict([i \in 1 .. Len(stats) |->
             Entry(stats[i].key,
                   LinkClamp(NormalValue(stats[i].mean, stats[i].stddev, z[i])))])

\* sample_profile(data, profile, idx, conn_type, corr) up to the draw: the
\* (mean, stddev) statistics it samples from, or what it raises.
ProfileStats(data, profile, conn_type) ==
    LET found ==
            IF HasKey(data, profile)
            THEN Ok([profile |-> profile, conn_type |-> conn_type])
            ELSE LET r == deep_get(data, profile)
                 IN IF r.kind = "error" THEN r
                    ELSE Ok([profile |-> r.value.path[1],
                             conn_type |-> r.value.path[2]])
    IN IF found.kind = "error" THEN found
       ELSE LET p_data == Get(data, found.value.profile)
                ct == found.value.conn_type
            IN IF ct = "None"
               THEN LET all == [i \in 1 .. Len(p_data.items) |->
                                   extract_param_stats(p_data.items[i].value)]
                    IN IF \E i \in 1 .. Len(all) : StatKeys(all[i]) # StatKeys(all[1])
                       THEN Raise("AssertionError")
                       ELSE Ok(MeanStats(all))
               ELSE IF ~HasKey(p_data, ct)
                    THEN Raise("ValueError")
                    ELSE Ok(extract_param_stats(Get(p_data, ct)))

\* sample_profile(): what it returns or raises, and whether it drew from the
\* generator it built.
sample_profile(data, profile, conn_type, z) ==
    LET stats == ProfileStats(data, profile, conn_type)
    IN IF stats.kind = "error"
       THEN [ret |-> stats, drew |-> FALSE]
       ELSE [ret |-> Ok(LinkSample(stats.value, z)), drew |-> TRUE]

\* ----------------------------------------------------------- perturb_device
\* variation is given in fifths: 1 is the default 0.2.
DeviceVariationFifths == 1

\* perturb_device() ignoring lock_keys.
LockedKeysNone(lock_keys) == {}

\* lock_keys = set(lock_keys or [])
LockedKeys(lock_keys) == lock_keys

\* v = max(1, v)
DeviceClamp(v) == Clamp(Num(1), v)

\* One perturbed field: sigma = variation * |mean|, the drawn value, rounded
\* when the catalog value is integral, clamped.
PerturbedValue(mean, variation, zh) ==
    LET sigma == (variation * Abs(mean)) \div 5
        v == NormalValue(mean, sigma, zh)
    IN DeviceClamp(IF mean % Scale = 0 THEN Num(RoundHalfEven(v)) ELSE v)

\* perturb_device(data, device_name, idx, variation, corr, lock_keys): what it
\* returns or raises, whether it drew from the generator it built, and data
\* as the call leaves it.
perturb_device(data, device_name, variation, lock_keys, z) ==
    IF ~HasKey(data, device_name)
    THEN [ret |-> Raise("ValueError"), drew |-> FALSE, data |-> data]
    ELSE LET device == Get(data, device_name)
             lk == LockedKeys(lock_keys)
             keys == SelectSeq(Keys(device), LAMBDA k : k \notin lk)
             locked == SelectSeq(device.items, LAMBDA e : e.key \in lk)
         IN IF Len(keys) = 0
            THEN [ret |-> Ok(Dict(locked)), drew |-> FALSE, data |-> data]
            ELSE LET perturbed ==
                         [i \in 1 .. Len(keys) |->
                             Entry(keys[i],
                                   PerturbedValue(Get(device, keys[i]), variation, z[i]))]
                 IN [ret |-> Ok(Dict(perturbed \o locked)), drew |-> TRUE,
                     data |-> data]

\* The (cores, single_core_score) the manager reads from a device dict.
DeviceOf(d) ==
    [cores |-> Get(d, "cores") \div Scale,
     single_core_score |-> Get(d, "single_core_score") \div Scale]

NoCall == [op |-> "none", args |-> <<>>, result |-> Ok("None"), between |-> FALSE]

\* ------------------------------------------------------------------ state
ManagerInit(hc, hs) ==
    /\ host_cores = hc
    /\ host_score = hs
    /\ cores = EmptyCores
    /\ allocations = EmptyMap
    /\ use_spread_mode = TRUE
    /\ containers = <<>>
    /\ configs = EmptyMap
    /\ planned = FALSE
    /\ lastOp = "init"
    /\ lastArgs = <<>>
    /\ result = Ok("None")
    /\ callLog = <<>>
    /\ replanned = FALSE

\* The process before any catalog was read or any sample drawn.
ProcessInit ==
    /\ opens = <<>>
    /\ reads = [n \in DocumentNames |-> 0]
    /\ np_global = GlobalGenerator
    /\ earlier = NoCall

\* numpy's streams play no part in what the manager and the allocator do
\* with explicit device specs.
SomeStream == CHOOSE f \in Streams : TRUE

Init ==
    /\ ManagerInit(HostCores, HostScore)
    /\ allow_overscaling \in BOOLEAN
    /\ files = InstalledFiles
    /\ normals = SomeStream
    /\ ProcessInit

\* The manager of Examples 1 and 2: ContainerResourceManager(host_score=1079,
\* host_cores=8, spread_threshold=0.5), with either overscaling setting.
InitExample ==
    /\ ManagerInit(ExampleHostCores, ExampleHostScore)
    /\ allow_overscaling \in BOOLEAN
    /\ files = InstalledFiles
    /\ normals = SomeStream
    /\ ProcessInit

\* A process that only loads catalogs and samples from them.
InitSampler ==
    /\ ManagerInit(HostCores, HostScore)
    /\ allow_overscaling = FALSE
    /\ files \in FileSystems
    /\ normals \in Streams
    /\ ProcessInit

SamplerUnchanged == UNCHANGED <<files, opens, reads, np_global, normals, earlier>>
HostUnchanged == UNCHANGED <<host_cores, host_score, allow_overscaling>>
ManagerUnchanged == UNCHANGED <<containers, configs, planned, replanned>>
AllocatorUnchanged == UNCHANGED <<cores, allocations, use_spread_mode, callLog>>

\* ------------------------------------------------ ContainerResourceManager
\* add_container(name, device_name, device_spec, default_cores).  Names are
\* opaque to the manager, so a new name is taken to be the next unused one
\* (client_0, client_1, ...); any registered name may be registered again.
AddContainer ==
    \E name \in RegNames :
        /\ HasName(containers, name) \/ name = <<"client", Len(containers)>>
        /\ lastOp' = "add_container"
        /\ lastArgs' = <<name>>
        /\ IF AddContainerRaises
           THEN /\ result' = Raise("RuntimeError")
                /\ UNCHANGED containers
           ELSE /\ result' = Ok("None")
                /\ \E dev \in DeviceInputs :
                      containers' = DictPut(containers, name, dev)
        /\ UNCHANGED <<configs, planned, replanned>>
        /\ HostUnchanged
        /\ SamplerUnchanged
        /\ AllocatorUnchanged

PlanAllocations ==
    /\ \E r \in {plan_allocations(Allocator, containers, configs, allow_overscaling)} :
          /\ cores' = r.alloc.cores
          /\ allocations' = r.alloc.allocations
          /\ use_spread_mode' = r.alloc.mode
          /\ configs' = r.configs
          /\ callLog' = r.alloc.calls
    /\ planned' = TRUE
    /\ replanned' = planned
    /\ lastOp' = "plan_allocations"
    /\ lastArgs' = <<>>
    /\ result' = Ok("None")
    /\ UNCHANGED containers
    /\ HostUnchanged
    /\ SamplerUnchanged

GetContainerConfig ==
    \E name \in RegNames :
        /\ lastOp' = "get_container_config"
        /\ lastArgs' = <<name>>
        /\ result' = IF GetConfigRaises THEN Raise("RuntimeError")
                     ELSE IF name \in DOMAIN configs THEN Ok(configs[name])
                     ELSE Ok("None")
        /\ HostUnchanged
        /\ SamplerUnchanged
        /\ ManagerUnchanged
        /\ AllocatorUnchanged

GetAllConfigs ==
    /\ lastOp' = "get_all_configs"
    /\ lastArgs' = <<>>
    /\ result' = IF GetAllConfigsRaises THEN Raise("RuntimeError") ELSE Ok(configs)
    /\ HostUnchanged
    /\ SamplerUnchanged
    /\ ManagerUnchanged
    /\ AllocatorUnchanged

GetAllocationSummary ==
    /\ lastOp' = "get_allocation_summary"
    /\ lastArgs' = <<>>
    /\ result' = IF GetSummaryRaises THEN Raise("RuntimeError")
                 ELSE Ok(get_allocation_summary)
    /\ HostUnchanged
    /\ SamplerUnchanged
    /\ ManagerUnchanged
    /\ AllocatorUnchanged

\* ContainerResourceManager.reset(): a new CPUAllocator, both dicts cleared.
Reset ==
    /\ \E a \in {FreshAllocator} :
          /\ cores' = a.cores
          /\ allocations' = a.allocations
          /\ use_spread_mode' = a.mode
          /\ callLog' = a.calls
    /\ containers' = <<>>
    /\ configs' = EmptyMap
    /\ planned' = FALSE
    /\ replanned' = FALSE
    /\ lastOp' = "reset"
    /\ lastArgs' = <<>>
    /\ result' = Ok("None")
    /\ HostUnchanged
    /\ SamplerUnchanged

\* ------------------------------------------ CPUAllocator, called directly
AllocatorReset ==
    /\ LET a == allocator_reset(Allocator)
       IN /\ cores' = a.cores
          /\ allocations' = a.allocations
          /\ use_spread_mode' = a.mode
          /\ callLog' = a.calls
    /\ lastOp' = "allocator_reset"
    /\ lastArgs' = <<>>
    /\ result' = Ok("None")
    /\ HostUnchanged
    /\ SamplerUnchanged
    /\ ManagerUnchanged

\* set_mode(n, cap), called as plan_allocations() calls it: before the
\* allocations of a pass.
\* host_cores * spread_threshold in units, rounded down.
SpreadLimit == (host_cores * Unit * SpreadNum) \div SpreadDen

SetMode ==
    \E n \in {host_cores, host_cores + 1},
       cap \in (SpreadLimit - 1) .. (SpreadLimit + 1) :
        /\ callLog = <<>>
        /\ use_spread_mode' = set_mode(n, cap)
        /\ lastOp' = "set_mode"
        /\ lastArgs' = <<n, cap>>
        /\ result' = Ok("None")
        /\ UNCHANGED <<cores, allocations, callLog>>
        /\ HostUnchanged
        /\ SamplerUnchanged
        /\ ManagerUnchanged

Allocate ==
    \E name \in AllocNames, dc \in DevCores, ds \in DevScores,
       prefer \in {"None"} :
        /\ Len(callLog) < MaxCalls
        /\ \E r \in {allocate(Allocator, allow_overscaling, name, dc, ds, prefer)} :
              /\ cores' = r.cores
              /\ allocations' = r.allocations
              /\ use_spread_mode' = r.mode
              /\ callLog' = r.calls
              /\ result' = Ok(r.ret)
        /\ lastOp' = "allocate"
        /\ lastArgs' = <<name, dc, ds, prefer>>
        /\ HostUnchanged
        /\ SamplerUnchanged
        /\ ManagerUnchanged

\* allocate() called as a planning pass calls it, once per container under
\* the names container_0, container_1, ..., here with any device.
AllocateNext ==
    \E dc \in DevCores, ds \in DevScores :
        /\ Len(callLog) < MaxPassCalls
        /\ \E r \in {allocate(Allocator, allow_overscaling,
                               ContainerName(Len(callLog)), dc, ds, "None")} :
              /\ cores' = r.cores
              /\ allocations' = r.allocations
              /\ use_spread_mode' = r.mode
              /\ callLog' = r.calls
              /\ result' = Ok(r.ret)
        /\ lastOp' = "allocate"
        /\ lastArgs' = <<ContainerName(Len(callLog)), dc, ds, "None">>
        /\ HostUnchanged
        /\ SamplerUnchanged
        /\ ManagerUnchanged

\* ------------------------------------------------- catalogs and sampling
ProfileInputs == {"wifi", "lte", "outdoor", "5g"}
\* (conn_type, corr): all connection types averaged or one of them, drawn
\* independently or with a correlation.
LinkCallInputs ==
    {[conn_type |-> "None", corr |-> "None"],
     [conn_type |-> "indoor", corr |-> "None"],
     [conn_type |-> "None", corr |-> "0.5"]}
DeviceNameInputs == {"rpi4", "jetson"}
\* (variation, lock_keys)
PerturbCallInputs ==
    {[variation |-> DeviceVariationFifths, lock_keys |-> {"cores"}],
     [variation |-> 5, lock_keys |-> {"cores"}],
     [variation |-> DeviceVariationFifths, lock_keys |-> {"ram_gib"}],
     [variation |-> DeviceVariationFifths,
      lock_keys |-> {"cores", "ram_gib", "single_core_score"}]}


\* The generator g draws one vector: a generator that is the process-wide one
\* is left advanced.
Draws(g) == np_global' = IF g.shared THEN Advance(g) ELSE np_global

\* earlier keeps one sampling call that drew: once taken it stays, and
\* between records that a call other than it has been made since.
Remembers(op, args, res, drew) ==
    IF earlier.op = "none"
    THEN \/ earlier' = earlier
         \/ /\ drew
            /\ earlier' = [op |-> op, args |-> args, result |-> res, between |-> FALSE]
    ELSE earlier' = [earlier EXCEPT !.between = @ \/ op # earlier.op \/ args # earlier.args]

\* load_profile_data(json_file)
LoadProfileData ==
    \E json_file \in PathInputs :
        /\ \E r \in {load_profile_data(json_file, 1)} :
              /\ opens' = r.opens
              /\ reads' = CountRead(reads, r.ret)
              /\ result' = r.ret
        /\ lastOp' = "load_profile_data"
        /\ lastArgs' = <<json_file>>
        /\ Remembers("load_profile_data", lastArgs', result', FALSE)
        /\ UNCHANGED <<np_global, normals, files>>
        /\ HostUnchanged
        /\ ManagerUnchanged
        /\ AllocatorUnchanged

\* network_profile(profile, idx, conn_type, corr), profile given as a name.
NetworkProfile ==
    \E profile \in ProfileInputs, idx \in Seeds, c \in LinkCallInputs :
        /\ lastOp' = "network_profile"
        /\ lastArgs' = <<profile, idx, c.conn_type, c.corr>>
        /\ \E loaded \in {load_profile_data(RelPath(NetworkSpecsJson), 1)} :
              /\ opens' = loaded.opens
              /\ reads' = CountRead(reads, loaded.ret)
              /\ IF loaded.ret.kind = "error"
                 THEN /\ result' = loaded.ret
                      /\ Remembers("network_profile", lastArgs', result', FALSE)
                      /\ UNCHANGED np_global
                 ELSE \E rng \in {RandomState(idx)} :
                        \E r \in {sample_profile(DataOf(loaded.ret.value), profile,
                                                 c.conn_type, Yields(rng))} :
                           /\ result' = r.ret
                           /\ Remembers("network_profile", lastArgs', result', r.drew)
                           /\ IF r.drew THEN Draws(rng) ELSE UNCHANGED np_global
        /\ UNCHANGED <<files, normals>>
        /\ HostUnchanged
        /\ ManagerUnchanged
        /\ AllocatorUnchanged

\* perturb_device(data, device_name, idx, variation, corr, lock_keys) on the
\* loaded device catalog.
PerturbDevice ==
    \E device_name \in DeviceNameInputs, idx \in Seeds, c \in PerturbCallInputs :
        /\ lastOp' = "perturb_device"
        /\ lastArgs' = <<device_name, idx, c.variation, c.lock_keys>>
        /\ \E rng \in {RandomState(idx)} :
              \E r \in {perturb_device(DeviceCatalog, device_name, c.variation,
                                        c.lock_keys, Yields(rng))} :
                 /\ result' = IF r.ret.kind = "ok"
                              THEN Ok([sample |-> r.ret.value, data |-> r.data])
                              ELSE r.ret
                 /\ Remembers("perturb_device", lastArgs', result', r.drew)
                 /\ IF r.drew THEN Draws(rng) ELSE UNCHANGED np_global
        /\ UNCHANGED <<opens, reads, files, normals>>
        /\ HostUnchanged
        /\ ManagerUnchanged
        /\ AllocatorUnchanged

\* add_container(name, device_name=..., idx=...): the branch that reads the
\* device catalog and perturbs the named device with cores locked.  idx is
\* given, or defaults to the number of registered containers.
AddContainerFromCatalog ==
    \E name \in RegNames, device_name \in DeviceNameInputs, idx_given \in BOOLEAN,
       idx_arg \in Seeds :
        /\ HasName(containers, name) \/ name = <<"client", Len(containers)>>
        /\ lastOp' = "add_container"
        /\ lastArgs' = <<name, device_name, idx_given, idx_arg>>
        /\ IF AddContainerRaises
           THEN /\ result' = Raise("RuntimeError")
                /\ UNCHANGED <<containers, opens, reads, np_global>>
           ELSE \E loaded \in {load_profile_data(RelPath(DeviceSpecsJson), 1)} :
                  /\ opens' = loaded.opens
                  /\ reads' = CountRead(reads, loaded.ret)
                  /\ IF loaded.ret.kind = "error"
                     THEN /\ result' = loaded.ret
                          /\ UNCHANGED <<containers, np_global>>
                     ELSE \E rng \in {RandomState(IF idx_given THEN idx_arg
                                                    ELSE Len(containers))} :
                            \E r \in {perturb_device(DataOf(loaded.ret.value), device_name,
                                                      DeviceVariationFifths, {"cores"},
                                                      Yields(rng))} :
                               /\ IF r.drew
                                  THEN Draws(rng)
                                  ELSE UNCHANGED np_global
                               /\ IF r.ret.kind = "error"
                                  THEN /\ result' = r.ret
                                       /\ UNCHANGED containers
                                  ELSE /\ result' = Ok("None")
                                       /\ containers' =
                                             DictPut(containers, name, DeviceOf(r.ret.value))
        /\ UNCHANGED <<configs, planned, replanned, earlier, files, normals>>
        /\ HostUnchanged
        /\ AllocatorUnchanged

\* ------------------------------------------- a list of profile names
\* list[k] as Python indexes it: k counts from 0, a negative k from the end.
PyIndex(list, k) ==
    IF k >= 0 /\ k < Len(list) THEN Ok(list[k + 1])
    ELSE IF k < 0 /\ k >= 0 - Len(list) THEN Ok(list[Len(list) + k + 1])
    ELSE Raise("IndexError")

\* network_profile(): profile = profile[idx - 1], or profile[-1] on IndexError.
ResolveProfile(profile, idx) ==
    LET first == PyIndex(profile, idx - 1)
    IN IF first.kind = "ok" THEN first ELSE PyIndex(profile, 0 - 1)

NoDevice == "no device"

\* device_profile(): device_name[idx - 1]; on IndexError, the default
\* config for idx == 0 (NoDevice) and device_name[-1] otherwise.
ResolveDevice(device_name, idx) ==
    LET first == PyIndex(device_name, idx - 1)
    IN IF first.kind = "ok" THEN first
       ELSE IF idx = 0 THEN Ok(NoDevice)
       ELSE PyIndex(device_name, 0 - 1)

\* generate_container_configs(client_count, device_parma=dev, host_score=...)
\* without an allocator: the limits follow from the device alone and no
\* cores are pinned.
legacy_config(dev) ==
    LET perf_ratio == IF dev.single_core_score = 0 THEN Unit ELSE dev.single_core_score
        effective_cores == dev.cores * Min(perf_ratio, Unit)
    IN [Cpus |-> dev.cores,
        EffectiveCpus |-> effective_cores,
        CpuPeriod |-> CpuPeriod,
        CpuQuota |-> FloorDiv(CpuPeriod * effective_cores, host_score),
        CpuShares |-> FloorDiv(effective_cores * CpuSharesUnit, host_score),
        CpusetCpus |-> "None",
        env_threads |-> Max(1, CeilDiv(effective_cores, Unit))]

\* generate_container_configs(1, host_score=host_score): no device, one
\* client, no allocator: one whole core.
default_config ==
    [Cpus |-> 1,
     EffectiveCpus |-> Unit,
     CpuPeriod |-> CpuPeriod,
     CpuQuota |-> CpuPeriod,
     CpuShares |-> CpuSharesUnit,
     CpusetCpus |-> "None",
     env_threads |-> 1]

Indices == 0 .. MaxIndex
ProfileListInputs == {<<>>, <<"wifi">>, <<"wifi", "lte">>}
DeviceListInputs == {<<>>, <<"rpi4">>, <<"rpi4", "jetson">>, <<"jetson", "rpi4">>}

\* network_profile(profile, idx, conn_type, corr), profile given as a list.
NetworkProfileOfList ==
    \E profile \in ProfileListInputs, idx \in Indices, c \in LinkCallInputs :
        /\ lastOp' = "network_profile"
        /\ lastArgs' = <<profile, idx, c.conn_type, c.corr>>
        /\ \E name \in {ResolveProfile(profile, idx)} :
              IF name.kind = "error"
              THEN /\ result' = name
                   /\ UNCHANGED <<opens, reads, np_global>>
              ELSE \E loaded \in {load_profile_data(RelPath(NetworkSpecsJson), 1)} :
                     /\ opens' = loaded.opens
                     /\ reads' = CountRead(reads, loaded.ret)
                     /\ IF loaded.ret.kind = "error"
                        THEN /\ result' = loaded.ret
                             /\ UNCHANGED np_global
                        ELSE \E rng \in {RandomState(idx)} :
                               \E r \in {sample_profile(DataOf(loaded.ret.value),
                                                        name.value, c.conn_type,
                                                        Yields(rng))} :
                                  /\ result' = r.ret
                                  /\ IF r.drew THEN Draws(rng) ELSE UNCHANGED np_global
        /\ UNCHANGED <<files, normals, earlier>>
        /\ HostUnchanged
        /\ ManagerUnchanged
        /\ AllocatorUnchanged

\* device_profile(idx, host_score, device_name), device_name given as a list,
\* the other arguments at their defaults (no allocator).
DeviceProfile ==
    \E device_name \in DeviceListInputs, idx \in Indices :
        /\ lastOp' = "device_profile"
        /\ lastArgs' = <<idx, device_name>>
        /\ \E loaded \in {load_profile_data(RelPath(DeviceSpecsJson), 1)} :
              /\ opens' = loaded.opens
              /\ reads' = CountRead(reads, loaded.ret)
              /\ IF loaded.ret.kind = "error"
                 THEN /\ result' = loaded.ret
                      /\ UNCHANGED np_global
                 ELSE \E name \in {ResolveDevice(device_name, idx)} :
                        IF name.kind = "error"
                        THEN /\ result' = name
                             /\ UNCHANGED np_global
                        ELSE IF name.value = NoDevice
                        THEN /\ result' = Ok(default_config)
                             /\ UNCHANGED np_global
                        ELSE \E rng \in {RandomState(idx)} :
                               \E r \in {perturb_device(DataOf(loaded.ret.value),
                                                         name.value, DeviceVariationFifths,
                                                         {"cores"}, Yields(rng))} :
                                  /\ result' = IF r.ret.kind = "error" THEN r.ret
                                               ELSE Ok(legacy_config(DeviceOf(r.ret.value)))
                                  /\ IF r.drew THEN Draws(rng) ELSE UNCHANGED np_global
        /\ UNCHANGED <<files, normals, earlier>>
        /\ HostUnchanged
        /\ ManagerUnchanged
        /\ AllocatorUnchanged

\* The manager's interface, as the emulation uses it.
Next ==
    \/ AddContainer
    \/ PlanAllocations
    \/ GetContainerConfig
    \/ GetAllConfigs
    \/ GetAllocationSummary
    \/ Reset

Spec == Init /\ [][Next]_vars

\* The manager's interface on the example host.
SpecExample == InitExample /\ [][Next]_vars

\* Example 2 under __main__: up to ExampleClientCount devices registered as
\* client_0, client_1, ... on the example host, planned, summarised.
ExampleNames == {<<"client", i>> : i \in 0 .. (ExampleClientCount - 1)}

\* add_container(f"client_{i}", device_spec=...) as Example 2 calls it.
AddExampleContainer ==
    \E name \in ExampleNames, dev \in ExampleSpecs :
        /\ HasName(containers, name) \/ name = <<"client", Len(containers)>>
        /\ lastOp' = "add_container"
        /\ lastArgs' = <<name>>
        /\ IF AddContainerRaises
           THEN /\ result' = Raise("RuntimeError")
                /\ UNCHANGED containers
           ELSE /\ result' = Ok("None")
                /\ containers' = DictPut(containers, name, dev)
        /\ UNCHANGED <<configs, planned, replanned>>
        /\ HostUnchanged
        /\ SamplerUnchanged
        /\ AllocatorUnchanged

NextExample2 ==
    \/ AddExampleContainer
    \/ PlanAllocations
    \/ GetAllocationSummary
    \/ Reset

SpecExample2 == InitExample /\ [][NextExample2]_vars

\* Catalog loading and sampling, called directly.
NextSampler ==
    \/ LoadProfileData
    \/ NetworkProfile
    \/ PerturbDevice

SpecSampler == InitSampler /\ [][NextSampler]_vars

\* Registration of catalog devices with the manager.
NextRegistration ==
    \/ AddContainerFromCatalog
    \/ PlanAllocations
    \/ Reset

SpecRegistration == InitSampler /\ [][NextRegistration]_vars

\* Profiles and devices picked from lists by node index.
NextProfiles ==
    \/ NetworkProfileOfList
    \/ DeviceProfile

SpecProfiles == InitSampler /\ [][NextProfiles]_vars

\* The allocator's own interface, called directly.
NextAllocator ==
    \/ AllocatorReset
    \/ SetMode
    \/ Allocate

SpecAllocator == Init /\ [][NextAllocator]_vars

\* One allocator filled by longer runs of allocate() calls, a container each.
NextPacking ==
    \/ AllocatorReset
    \/ SetMode
    \/ AllocateNext

SpecPacking == Init /\ [][NextPacking]_vars

\* ------------------------------------------------------------------ claims
RECURSIVE SumLimits(_, _)
SumLimits(names, i) ==
    IF i > Len(names) THEN 0
    ELSE allocations[names[i]].cpu_limit_per_core + SumLimits(names, i + 1)

AfterPlan == lastOp = "plan_allocations"
Totals == PlanTotals(containers, allow_overscaling, 1)
NoOversubscription ==
    /\ \A c \in CoreIds : cores[c].used_capacity <= Unit
    /\ \A n \in DOMAIN allocations : ~allocations[n].is_oversubscribed

\* C1: (as claimed) in every state, each core's used capacity is the sum of the
\* per-core limits of the allocations its assignment list names, one term per
\* list entry.  Fails under SpecAllocator: allocate() accepts a name twice (C6).
C1_UsedIsSumOfLimits ==
    \A c \in CoreIds :
        cores[c].used_capacity = SumLimits(cores[c].assigned_containers, 1)

\* C2: (as claimed) after plan_allocations, if the total effective capacity is
\* at most the host core count, no core is above 1.0 and no record is flagged.
C2_CapacityConservation ==
    (AfterPlan /\ Totals.total_effective <= host_cores * Unit) => NoOversubscription

\* C2: (amended) after plan_allocations, if the total number of cores needed is
\* at most the host core count, no core is above 1.0 and no record is flagged.
C2_NoOversubscriptionWhenCoresSuffice ==
    (AfterPlan /\ Totals.total_cores_needed <= host_cores) => NoOversubscription

C2_Witness ==
    /\ AfterPlan
    /\ Len(containers) = 2
    /\ Totals.total_cores_needed <= host_cores
    /\ ~use_spread_mode
    /\ \E c \in CoreIds : cores[c].used_capacity = Unit

\* C3: an allocate() call returns a record whose oversubscription flag is set
\* exactly when some chosen core held more than 1.0 - perCoreLimit before the
\* call; flagged or not, every chosen core is charged perCoreLimit and gets the
\* name appended, the other cores are untouched, and the record is stored
\* under the name and returned.
C3_OversubscriptionFlaggedNotRejected ==
    [][lastOp' = "allocate" =>
        /\ result'.kind = "ok"
        /\ LET rec == result'.value
               name == lastArgs'[1]
               chosen == SeqRange(rec.assigned_cores)
               limit == rec.cpu_limit_per_core
           IN /\ rec.is_oversubscribed <=>
                    (\E c \in chosen : cores[c].used_capacity + limit > Unit)
              /\ \A c \in chosen :
                    /\ cores'[c].used_capacity = cores[c].used_capacity + limit
                    /\ cores'[c].assigned_containers =
                          Append(cores[c].assigned_containers, name)
              /\ \A c \in CoreIds \ chosen : cores'[c] = cores[c]
              /\ name \in DOMAIN allocations'
              /\ allocations'[name] = rec]_vars

C3_Witness ==
    /\ lastOp = "allocate"
    /\ result.kind = "ok"
    /\ result.value.is_oversubscribed
    /\ allocations[lastArgs[1]] = result.value
    /\ \E c \in SeqRange(result.value.assigned_cores) :
          /\ cores[c].used_capacity > Unit
          /\ Len(cores[c].assigned_containers) = 2

Accessors == {"get_container_config", "get_all_configs", "get_allocation_summary"}

\* C4: (as claimed) each of the three accessors raises while the manager is
\* not planned.  Fails: get_allocation_summary() has no guard.
C4_AccessorsRaiseBeforePlanning ==
    (lastOp \in Accessors /\ ~planned) => result.kind = "error"

\* C5: add_container() on a planned manager raises and leaves the requests,
\* the configs and the allocator as they were; on an unplanned manager (at the
\* start and after every reset()) it succeeds and registers the name.
C5_AddAfterPlanRaises ==
    [][/\ lastOp' = "add_container" =>
            IF planned
            THEN /\ result'.kind = "error"
                 /\ UNCHANGED <<containers, configs, cores, allocations,
                                use_spread_mode, planned>>
            ELSE /\ result'.kind = "ok"
                 /\ HasName(containers', lastArgs'[1])
       /\ lastOp' = "reset" => ~planned']_vars

C5_Witness ==
    /\ lastOp = "add_container"
    /\ planned
    /\ result.kind = "error"
    /\ Len(containers) >= 1

\* C6: (as claimed) allocate() for a name that already has a record raises and
\* leaves every core as it was.  Fails: the call succeeds and charges again.
C6_ReallocateRaises ==
    [][(lastOp' = "allocate" /\ lastArgs'[1] \in DOMAIN allocations) =>
        /\ result'.kind = "error"
        /\ cores' = cores]_vars

\* C7: (as claimed) at most one planning pass runs between two resets.
C7_SingleShot == ~replanned

\* C7: (amended) plan_allocations() may run again without a reset, and every
\* pass starts from an empty allocator: after any pass the allocator has seen
\* one allocate() call per registered request, no core lists a name twice, and
\* each core's usage is what that one pass charged.
C7_EachPassStartsEmpty ==
    AfterPlan =>
        /\ Len(callLog) = Len(containers)
        /\ \A c \in CoreIds :
              LET l == cores[c].assigned_containers
              IN /\ \A i, j \in 1 .. Len(l) : l[i] = l[j] => i = j
                 /\ cores[c].used_capacity = SumLimits(l, 1)
        /\ Cardinality(DOMAIN allocations) = Len(containers)

C7_Witness ==
    /\ AfterPlan
    /\ replanned
    /\ Len(containers) = 2
    /\ \E c \in CoreIds : cores[c].used_capacity > 0

\* C8: a planning pass calls allocate() once per registered request, the i-th
\* call with the device cores and score of the i-th registered request, under
\* the name formatted from i-1.
C8_AllocateInRegistrationOrder ==
    AfterPlan =>
        /\ Len(callLog) = Len(containers)
        /\ \A i \in 1 .. Len(containers) :
              /\ callLog[i].container_name = <<"container", i - 1>>
              /\ callLog[i].device_cores = containers[i].dev.cores
              /\ callLog[i].device_score = containers[i].dev.single_core_score

C8_Witness ==
    /\ AfterPlan
    /\ Len(containers) = 2
    /\ containers[1].dev.cores # containers[2].dev.cores
    /\ callLog[1].device_cores = containers[1].dev.cores

\* C9: after a planning pass every allocation record carries one and the same
\* mode: the one set_mode chose from the pass's totals, which is the one the
\* summary reports.
C9_OneModePerPass ==
    AfterPlan =>
        /\ get_allocation_summary.mode =
              ModeName(set_mode(Totals.total_cores_needed, Totals.total_effective))
        /\ \A n \in DOMAIN allocations :
              allocations[n].mode = get_allocation_summary.mode

C9_Witness ==
    /\ AfterPlan
    /\ Cardinality(DOMAIN allocations) = 2
    /\ get_allocation_summary.mode = "shared"
    /\ \A n \in DOMAIN allocations : allocations[n].mode = "shared"

Example2Planned ==
    /\ AfterPlan
    /\ host_cores = 8
    /\ host_score = 1079
    /\ ~allow_overscaling
    /\ Len(containers) = 1
    /\ containers[1].dev = [cores |-> 4, single_core_score |-> 1079]

\* C11: (as claimed) on the 8-core host of score 1079 without overscaling, one
\* registered device {cores 4, score 1079} is planned in Spread mode on 4
\* distinct cores with quota 400000 and no oversubscription flag.  Fails: the
\* total effective capacity 4.0 is not below 8 * 0.5, so the mode is Shared.
C11_Scenario2Spread ==
    Example2Planned =>
        LET rec == allocations[ContainerName(0)]
        IN /\ get_allocation_summary.mode = "spread"
           /\ rec.mode = "spread"
           /\ Len(rec.assigned_cores) = 4
           /\ Cardinality(SeqRange(rec.assigned_cores)) = 4
           /\ rec.cpu_quota = 400000
           /\ ~rec.is_oversubscribed

RegisteredNames == {containers[i].name : i \in 1 .. Len(containers)}

\* C12: (as claimed) after plan_allocations the summary's allocation map has
\* exactly the registered names as keys, and every name in a core's
\* assignment list is a registered name.  Fails: the records are stored under
\* container_<idx>, whatever name was registered.
C12_RecordsKeyedByRegisteredName ==
    AfterPlan =>
        /\ DOMAIN get_allocation_summary.allocations = RegisteredNames
        /\ \A c \in CoreIds :
              SeqRange(get_allocation_summary.core_usage[c].containers)
                  \subseteq RegisteredNames

AllCoresEmpty ==
    \A c \in CoreIds :
        /\ cores[c].used_capacity = 0
        /\ cores[c].assigned_containers = <<>>

\* C13: after reset() there are no requests, no configs and no allocation
\* records, every core is unused with an empty assignment list, the mode is
\* the initial one (spread) and the manager is unplanned; and as long as the
\* manager is unplanned, cores and records are empty.
C13_ResetClearsEverything ==
    /\ lastOp = "reset" =>
          /\ containers = <<>>
          /\ DOMAIN configs = {}
          /\ DOMAIN allocations = {}
          /\ AllCoresEmpty
          /\ use_spread_mode
          /\ get_allocation_summary.mode = "spread"
          /\ ~planned
    /\ ~planned => (AllCoresEmpty /\ DOMAIN allocations = {})

C13_Witness ==
    /\ lastOp = "reset"
    /\ ~planned
    /\ containers = <<>>
    /\ AllCoresEmpty

\* n = ceil(num / den), for den > 0
IsCeil(n, num, den) == n * den >= num /\ (n - 1) * den < num

\* rec and the cores_to_assign of the call that made it are as C14 says.
ParamsAsClaimed(rec, cores_to_assign) ==
    LET dc == rec.device_cores
        ds == rec.device_score
    IN IF allow_overscaling /\ ds > host_score
       THEN /\ IsCeil(cores_to_assign, dc * ds, host_score)
            /\ rec.cpu_limit_per_core = Unit
            /\ rec.effective_capacity = dc * ds
       ELSE /\ cores_to_assign = dc
            /\ rec.cpu_limit_per_core = Min(Unit, ds)
            /\ rec.effective_capacity = dc * Min(Unit, ds)

\* C14: every allocate() call, direct or made by a planning pass, computes
\* coresToAssign = ceil(deviceCores * rawRatio), perCoreLimit = 1.0 and
\* effectiveCapacity = deviceCores * rawRatio when overscaling is on and
\* rawRatio > 1, and coresToAssign = deviceCores, perCoreLimit = min(1, rawRatio),
\* effectiveCapacity = deviceCores * min(1, rawRatio) otherwise.
C14_AllocateParameters ==
    /\ lastOp = "allocate" =>
          /\ result.value.device_cores = lastArgs[2]
          /\ result.value.device_score = lastArgs[3]
          /\ ParamsAsClaimed(result.value, callLog[Len(callLog)].cores_to_assign)
    /\ AfterPlan =>
          \A i \in 1 .. Len(containers) :
              /\ allocations[ContainerName(i - 1)].device_cores = containers[i].dev.cores
              /\ allocations[ContainerName(i - 1)].device_score
                     = containers[i].dev.single_core_score
              /\ ParamsAsClaimed(allocations[ContainerName(i - 1)],
                                 callLog[i].cores_to_assign)

C14_Witness ==
    /\ lastOp = "allocate"
    /\ allow_overscaling
    /\ result.value.device_score > host_score
    /\ (result.value.device_cores * result.value.device_score) % host_score # 0
    /\ callLog[Len(callLog)].cores_to_assign > result.value.device_cores
    /\ result.value.cpu_limit_per_core = Unit

\* Example 3 of C14 on the example host: 4 cores at twice the host score give
\* 8 cores to assign, per-core limit 1.0, effective capacity 8.
C14_Example3 ==
    (/\ AfterPlan
     /\ allow_overscaling
     /\ host_score = 1079
     /\ Len(containers) = 1
     /\ containers[1].dev = [cores |-> 4, single_core_score |-> 2158]) =>
        /\ callLog[1].cores_to_assign = 8
        /\ allocations[ContainerName(0)].cpu_limit_per_core = 1 * Unit
        /\ allocations[ContainerName(0)].effective_capacity = 8 * Unit

\* C15: (as claimed) the thread-count hint of every planned node is
\* ceil(effectiveCapacity) of the node's allocation record.  Fails: the hint
\* is max(1, ceil(allocated_capacity)), which is smaller when the device asks
\* for more cores than the host has.
C15_ThreadHintIsCeilEffective ==
    AfterPlan =>
        \A i \in 1 .. Len(containers) :
            IsCeil(configs[containers[i].name].env_threads,
                   allocations[ContainerName(i - 1)].effective_capacity, Unit)

\* The last call is the remembered sampling call made again, with the same
\* name, seed index, connection type and correlation (or variation and
\* locked keys), on the same catalog.
SameCallAgain ==
    /\ earlier.op # "none"
    /\ lastOp = earlier.op
    /\ lastArgs = earlier.args

\* C16: sampling is deterministic: a network_profile (or perturb_device) call
\* with the arguments of an earlier one returns the sample the earlier one
\* returned, whatever calls were made in between, and no call changes the
\* process-wide generator.
C16_SamplingDeterministic ==
    /\ np_global = GlobalGenerator
    /\ SameCallAgain => result = earlier.result

C16_Witness ==
    /\ SameCallAgain
    /\ earlier.between
    /\ lastOp = "network_profile"
    /\ result.kind = "ok"
    /\ normals[0] # normals[1]

\* The values of a dict that are below lo, keys in skip left aside.
Below(d, lo, skip) ==
    {i \in 1 .. Len(d.items) : d.items[i].key \notin skip /\ d.items[i].value < lo}

\* C17: whatever the generator draws, every parameter of a sample that
\* network_profile returns is >= 0 and every field of a device that
\* perturb_device returns, the locked ones aside, is >= 1.
C17_SamplesClamped ==
    /\ (lastOp = "network_profile" /\ result.kind = "ok") =>
           Below(result.value, 0, {}) = {}
    /\ (lastOp = "perturb_device" /\ result.kind = "ok") =>
           Below(result.value.sample, Num(1), lastArgs[4]) = {}

\* A device sample with cores clamped to 1 (the catalog has 2, the draw was
\* below), after a link sample with a parameter clamped to 0.
C17_Witness ==
    /\ lastOp = "perturb_device"
    /\ result.kind = "ok"
    /\ "cores" \notin lastArgs[4]
    /\ Get(result.value.sample, "cores") = Num(1)
    /\ earlier.op = "network_profile"
    /\ \E i \in 1 .. Len(earlier.result.value.items) :
           earlier.result.value.items[i].value = 0

\* C18: perturb_device called with "cores" among the locked keys returns the
\* catalog's cores for every seed and every variation; every locked field of
\* the device is returned as the catalog has it, and the catalog is left as
\* it was.
C18_LockedFieldsVerbatim ==
    (lastOp = "perturb_device" /\ result.kind = "ok") =>
        LET device == Get(DeviceCatalog, lastArgs[1])
            sample == result.value.sample
        IN /\ result.value.data = DeviceCatalog
           /\ Len(sample.items) = Len(device.items)
           /\ \A k \in lastArgs[4] :
                  HasKey(device, k) =>
                      /\ HasKey(sample, k)
                      /\ Get(sample, k) = Get(device, k)

\* cores locked, the full variation, and another field perturbed away from
\* the catalog's value.
C18_Witness ==
    /\ lastOp = "perturb_device"
    /\ result.kind = "ok"
    /\ lastArgs[3] = 5
    /\ lastArgs[4] = {"cores"}
    /\ Get(result.value.sample, "cores") = Get(Get(DeviceCatalog, lastArgs[1]), "cores")
    /\ Get(result.value.sample, "single_core_score")
           # Get(Get(DeviceCatalog, lastArgs[1]), "single_core_score")

\* add_container(device_name=...) locks cores: every device registered from
\* the catalog has the catalog's cores.
C18_RegisteredCores ==
    \A i \in 1 .. Len(containers) :
        Num(containers[i].dev.cores) = Get(Get(DeviceCatalog, "rpi4"), "cores")

\* C19: (as claimed) a load that fails has tried the given path and then the
\* same name in the installation directory, these two and no more, and
\* fails with FileNotFoundError.  Fails: the second attempt is a nested
\* load_profile_data() call, which on its own failure tries again, and so on
\* until the interpreter refuses to nest deeper.
C19_TwoAttemptsThenNotFound ==
    (lastOp = "load_profile_data" /\ result.kind = "error") =>
        /\ result.error = "FileNotFoundError"
        /\ opens = <<lastArgs[1], os_path_join(ScriptDir, lastArgs[1])>>

\* C20: (as claimed) a process reads each catalog document at most once,
\* however many add_container / network_profile calls use it.  Fails: both
\* call load_profile_data() on every call and keep nothing.
C20_CatalogReadOnce ==
    \A n \in DocumentNames : reads[n] <= 1

\* ------------------------------------------------- one allocate() call
\* A step that is one direct allocate() call: cores is the core state the
\* call finds, result' the record it returns.
AllocateCall == lastOp' = "allocate" /\ Len(callLog') = Len(callLog) + 1

\* The core ids the call chose, in the order it assigned them, and the
\* num_cores_needed and capacity_per_core it asked for.
ChosenCores == result'.value.assigned_cores
CoresAsked == callLog'[Len(callLog')].cores_to_assign
LimitAsked == result'.value.cpu_limit_per_core

\* Core c has room for the call, in the core state it finds.
HadRoom(c) == available_capacity(cores[c]) >= LimitAsked

\* Core c comes before core u in 'available capacity descending, ties by
\* ascending core id', in the core state the call finds.
MoreAvailableFirst(c, u) ==
    \/ available_capacity(cores[c]) > available_capacity(cores[u])
    \/ /\ available_capacity(cores[c]) = available_capacity(cores[u])
       /\ c < u

\* The chosen cores are the first of the ranking Before, in its order.
FirstOfRanking(chosen, Before(_, _)) ==
    /\ \A i, j \in 1 .. Len(chosen) : i < j => Before(chosen[i], chosen[j])
    /\ \A i \in 1 .. Len(chosen) :
           \A u \in CoreIds \ SeqRange(chosen) : Before(chosen[i], u)

\* C21: in spread mode allocate() chooses the first min(cores_to_assign,
\* host_cores) cores of 'available capacity descending, ties by ascending
\* core id', ranked on the core state at the time of the call.
C21_SpreadRanking ==
    [][(AllocateCall /\ result'.value.mode = "spread") =>
          /\ Len(ChosenCores) = Min(CoresAsked, host_cores)
          /\ FirstOfRanking(ChosenCores, MoreAvailableFirst)]_vars

\* A spread call that found core 0 partly used and passed it over for a
\* core with more room.
C21_Witness ==
    /\ lastOp = "allocate"
    /\ result.value.mode = "spread"
    /\ Len(callLog) > 1
    /\ Len(result.value.assigned_cores) < host_cores
    /\ result.value.assigned_cores[1] # 0
    /\ cores[0].used_capacity > 0

\* Core c comes before core u in the shared ranking: a core with room
\* before one without, and among cores with room the more used one first,
\* ties by ascending core id.  Two cores without room are left unranked.
PackedFirst(c, u) ==
    IF HadRoom(c)
    THEN \/ ~HadRoom(u)
         \/ cores[c].used_capacity > cores[u].used_capacity
         \/ /\ cores[c].used_capacity = cores[u].used_capacity
            /\ c < u
    ELSE ~HadRoom(u)

\* C22: in shared mode allocate() ranks the cores with available capacity
\* >= cpu_limit_per_core before the cores without, the former by used
\* capacity descending, ties by ascending core id; a core without room is
\* chosen only when every core with room is chosen in the same call.
C22_SharedRanking ==
    [][(AllocateCall /\ result'.value.mode = "shared") =>
          /\ Len(ChosenCores) = Min(CoresAsked, host_cores)
          /\ FirstOfRanking(ChosenCores, PackedFirst)
          /\ (\E i \in 1 .. Len(ChosenCores) : ~HadRoom(ChosenCores[i])) =>
                 \A u \in CoreIds : HadRoom(u) => u \in SeqRange(ChosenCores)]_vars

\* A shared call that found core 0 full, passed it over for core 1, which
\* had room, and left core 0 unchosen.
C22_Witness ==
    /\ lastOp = "allocate"
    /\ result.value.mode = "shared"
    /\ Len(callLog) > 1
    /\ result.value.cpu_limit_per_core > 0
    /\ result.value.assigned_cores = <<1>>
    /\ cores[0].used_capacity >= Unit
    /\ cores[1].used_capacity = result.value.cpu_limit_per_core

\* A shared call that chose the used core 0, which still had room, and left
\* the empty core 1 alone.
C22_WitnessPacked ==
    /\ lastOp = "allocate"
    /\ result.value.mode = "shared"
    /\ Len(callLog) > 1
    /\ result.value.cpu_limit_per_core > 0
    /\ result.value.assigned_cores = <<0>>
    /\ cores[0].used_capacity = 2 * result.value.cpu_limit_per_core
    /\ cores[1].used_capacity = 0

\* s is strictly ascending.
Ascending(s) == \A i, j \in 1 .. Len(s) : i < j => s[i] < s[j]

\* C23: allocate() raises nothing when the device needs more cores than the
\* host has and assigns exactly host_cores cores; in every call the assigned
\* ids are pairwise distinct ids of host cores, min(cores_to_assign,
\* host_cores) of them, and cpuset_cpus is these ids in ascending order
\* without duplicates.
C23_AssignedCoresValid ==
    lastOp = "allocate" =>
        LET rec == result.value
            asked == callLog[Len(callLog)].cores_to_assign
            assigned == rec.assigned_cores
        IN /\ result.kind = "ok"
           /\ asked > host_cores => Len(assigned) = host_cores
           /\ Len(assigned) = Min(asked, host_cores)
           /\ rec.host_cores_assigned = Len(assigned)
           /\ SeqRange(assigned) \subseteq CoreIds
           /\ Cardinality(SeqRange(assigned)) = Len(assigned)
           /\ Ascending(rec.cpuset_cpus)
           /\ SeqRange(rec.cpuset_cpus) = SeqRange(assigned)

\* A device that needs more cores than the host has, given all of them.
C23_Witness ==
    /\ lastOp = "allocate"
    /\ result.kind = "ok"
    /\ callLog[Len(callLog)].cores_to_assign > host_cores
    /\ Len(result.value.assigned_cores) = host_cores
    /\ SeqRange(result.value.cpuset_cpus) = CoreIds

\* Example 2 under __main__, planned: three devices {cores 4, score 500} on
\* the host of 8 cores and score 1079, threshold 0.5, overscaling off.
Example2OfMainPlanned ==
    /\ AfterPlan
    /\ host_cores = ExampleHostCores
    /\ host_score = ExampleHostScore
    /\ ~allow_overscaling
    /\ Len(containers) = ExampleClientCount
    /\ \A i \in 1 .. Len(containers) :
           containers[i].dev = [cores |-> ExampleDevCores,
                                single_core_score |-> ExampleDevScore]

\* C24: (as claimed) planning the three devices of Example 2 selects spread
\* mode.  Fails: they need 12 cores, the host has 8, and set_mode() chooses
\* shared whenever total_cores_needed exceeds host_cores.
C24_Example2SelectsSpread ==
    Example2OfMainPlanned =>
        /\ use_spread_mode
        /\ \A n \in DOMAIN allocations : allocations[n].mode = "spread"

\* ------------------------------------------------------------- lists
\* What network_profile(name, idx, conn_type, corr) returns for one name,
\* and what device_profile(idx, host_score, name) returns for one name, on
\* the installed catalogs.
LinkOfName(name, idx, conn_type) ==
    sample_profile(NetworkCatalog, name, conn_type, Yields(RandomState(idx))).ret

ConfigOfName(name, idx) ==
    LET r == perturb_device(DeviceCatalog, name, DeviceVariationFifths, {"cores"},
                            Yields(RandomState(idx))).ret
    IN IF r.kind = "error" THEN r ELSE Ok(legacy_config(DeviceOf(r.value)))

CatalogsInstalled == InstalledFiles \subseteq files

\* C25: (as claimed) with a non-empty list of length L, node index i in
\* 1 .. L resolves to element i - 1, an index above L to the last element,
\* and index 0 selects no element: device_profile returns the default
\* config for it.  Fails for index 0: list[0 - 1] is the last element in
\* Python, so no IndexError is raised and the last element is used.
C25_ListIndexResolution ==
    /\ (lastOp = "network_profile" /\ CatalogsInstalled /\ Len(lastArgs[1]) > 0) =>
           LET profile == lastArgs[1]
               idx == lastArgs[2]
               L == Len(profile)
           IN /\ idx \in 1 .. L => result = LinkOfName(profile[idx], idx, lastArgs[3])
              /\ idx > L => result = LinkOfName(profile[L], idx, lastArgs[3])
    /\ (lastOp = "device_profile" /\ CatalogsInstalled /\ Len(lastArgs[2]) > 0) =>
           LET device_name == lastArgs[2]
               idx == lastArgs[1]
               L == Len(device_name)
           IN /\ idx \in 1 .. L => result = ConfigOfName(device_name[idx], idx)
              /\ idx > L => result = ConfigOfName(device_name[L], idx)
              /\ idx = 0 => result = Ok(default_config)

\* The part of C25 that the code keeps: indices from 1 on.
C25_FromOne ==
    /\ (lastOp = "network_profile" /\ CatalogsInstalled /\ Len(lastArgs[1]) > 0) =>
           LET profile == lastArgs[1]
               idx == lastArgs[2]
               L == Len(profile)
           IN /\ idx \in 1 .. L => result = LinkOfName(profile[idx], idx, lastArgs[3])
              /\ idx > L => result = LinkOfName(profile[L], idx, lastArgs[3])
    /\ (lastOp = "device_profile" /\ CatalogsInstalled /\ Len(lastArgs[2]) > 0) =>
           LET device_name == lastArgs[2]
               idx == lastArgs[1]
               L == Len(device_name)
           IN /\ idx \in 1 .. L => result = ConfigOfName(device_name[idx], idx)
              /\ idx > L => result = ConfigOfName(device_name[L], idx)

\* ------------------------------------------------------------ C26 .. C30
\* C26: whenever plan_allocations() selects spread mode and every registered
\* device has a positive score, after planning no host core is assigned to
\* two nodes and no allocation record is flagged oversubscribed.
C26_SpreadIsolation ==
    (/\ AfterPlan
     /\ use_spread_mode
     /\ \A i \in 1 .. Len(containers) : containers[i].dev.single_core_score > 0) =>
        /\ \A c \in CoreIds : Len(cores[c].assigned_containers) <= 1
        /\ \A n \in DOMAIN allocations : ~allocations[n].is_oversubscribed

\* Two nodes planned in spread mode, each on cores of its own.
C26_Witness ==
    /\ AfterPlan
    /\ use_spread_mode
    /\ Len(containers) = 2
    /\ \A i \in 1 .. Len(containers) : containers[i].dev.single_core_score > 0
    /\ allocations[ContainerName(1)].assigned_cores[1] # 0
    /\ \A c \in CoreIds : Len(cores[c].assigned_containers) = 1

\* The cores that had room for the call, in the core state it found.
CoresWithRoom == {c \in CoreIds : HadRoom(c)}

\* C27: (as claimed) an allocate() call flags oversubscription only if fewer
\* than cores_to_assign cores had available capacity >= cpu_limit_per_core
\* when it was made, and it leaves no core with room unchosen while it
\* charges a core beyond 1.0.  Fails for a per-core limit of 0 (device score
\* 0): available_capacity is clamped at 0, so a core already beyond 1.0
\* counts as having room, is chosen, and the call is flagged.
C27_NoAvoidableOversubscription ==
    [][AllocateCall =>
          /\ result'.value.is_oversubscribed =>
                 Cardinality(CoresWithRoom) < CoresAsked
          /\ \A i \in 1 .. Len(ChosenCores) :
                 Oversubscribes(cores[ChosenCores[i]], LimitAsked) =>
                     CoresWithRoom \subseteq SeqRange(ChosenCores)]_vars

\* C27 for calls with a positive per-core limit.
C27_PositiveLimit ==
    [][(AllocateCall /\ LimitAsked > 0) =>
          /\ result'.value.is_oversubscribed =>
                 Cardinality(CoresWithRoom) < CoresAsked
          /\ \A i \in 1 .. Len(ChosenCores) :
                 Oversubscribes(cores[ChosenCores[i]], LimitAsked) =>
                     CoresWithRoom \subseteq SeqRange(ChosenCores)]_vars

\* C28: (as claimed) in shared mode, a call that takes cores without room
\* takes the least loaded of them: no chosen core without room was more used
\* than an unchosen core without room.  Fails: cores without room are
\* ranked by available capacity, which is 0 for every core at or beyond 1.0,
\* so among those the lowest core id wins whatever its load.
C28_LeastLoadedWithoutRoom ==
    [][(AllocateCall /\ result'.value.mode = "shared") =>
          \A i \in 1 .. Len(ChosenCores) :
              \A u \in CoreIds \ (SeqRange(ChosenCores) \cup CoresWithRoom) :
                  ~HadRoom(ChosenCores[i]) =>
                      cores[ChosenCores[i]].used_capacity <= cores[u].used_capacity]_vars

\* C29: plan_allocations() called again on a planned manager leaves the
\* per-core used capacities and assignment lists, the allocation records,
\* the configs and the mode exactly as the previous pass left them.
C29_ReplanIdempotent ==
    [][(planned /\ lastOp' = "plan_allocations") =>
          /\ cores' = cores
          /\ allocations' = allocations
          /\ configs' = configs
          /\ use_spread_mode' = use_spread_mode]_vars

C29_Witness ==
    /\ replanned
    /\ lastOp = "plan_allocations"
    /\ Len(containers) >= 1
    /\ Len(callLog) = Len(containers)
    /\ \E c \in CoreIds : Len(cores[c].assigned_containers) >= 1

\* C30: (as claimed) every record allocate() returns has
\* cpu_quota <= cpu_period * (number of core ids in its cpuset).  Fails when
\* more cores are asked for than the host has: the cpuset holds the
\* host_cores ids that were assigned, the quota is still computed from the
\* full effective capacity.
C30_QuotaWithinCpuset ==
    [][AllocateCall =>
          result'.value.cpu_quota <=
              CpuPeriod * Len(result'.value.cpuset_cpus)]_vars

\* C30: (amended) the quota of a record never exceeds cpu_period times the
\* cores the call asked for, and so never cpu_period times the size of its
\* cpuset when the call asked for no more cores than the host has.
C30_QuotaWithinCoresAsked ==
    [][AllocateCall =>
          /\ result'.value.cpu_quota <= CpuPeriod * CoresAsked
          /\ CoresAsked <= host_cores =>
                 /\ Len(result'.value.cpuset_cpus) = CoresAsked
                 /\ result'.value.cpu_quota <=
                        CpuPeriod * Len(result'.value.cpuset_cpus)]_vars

\* An over-scaled device within the host: more quota than its device cores
\* alone would get, on a cpuset that covers it.
C30_Witness ==
    /\ lastOp = "allocate"
    /\ result.kind = "ok"
    /\ allow_overscaling
    /\ result.value.device_score > host_score
    /\ callLog[Len(callLog)].cores_to_assign <= host_cores
    /\ result.value.cpu_quota > CpuPeriod * result.value.device_cores
    /\ Len(result.value.cpuset_cpus) >= 2

====
